---- MODULE Spec2Model ----
(***************************************************************************)
(* State machine of the TrustiPay user app (src/src/App.tsx): the React    *)
(* state of the App component, its event handlers, the two biometric       *)
(* timers, the camera request and the scan timer.                          *)
(*                                                                         *)
(* Strings the code inspects character by character (the draft fields,     *)
(* the login name) are sequences of one-character strings.  Numbers are    *)
(* JavaScript numbers restricted to NaN, +/-Infinity and finite decimals   *)
(* with at most three fractional digits; a finite value v is held as the   *)
(* integer 1000*v ("mills"), so LKR 125000 is 125000000.                   *)
(***************************************************************************)
EXTENDS Integers, Sequences, FiniteSets, TLC

VARIABLES
    screen,            \* App.tsx:100
    userName,          \* App.tsx:102
    loginName,         \* App.tsx:103
    loginError,        \* App.tsx:106
    draft,             \* App.tsx:107
    pendingTransfer,   \* App.tsx:108
    lastTransfer,      \* App.tsx:111
    history,           \* App.tsx:112
    balance,           \* App.tsx:113
    transferError,     \* App.tsx:114
    historyFilter,     \* App.tsx:115
    historySearch,     \* App.tsx:118
    biometricStatus,   \* App.tsx:119
    cameraStatus,      \* App.tsx:122
    cameraError,       \* App.tsx:125
    offlineScanResult, \* App.tsx:126
    offlineRecordedAt, \* App.tsx:127
    cameraStream,      \* App.tsx:131
    cameraSupported,   \* navigator.mediaDevices?.getUserMedia, App.tsx:251
    liveStreams,       \* streams whose tracks have not been stopped
    streamRequests,    \* getUserMedia promises not yet settled, App.tsx:258
    playRequests,      \* video.play() promises not yet settled, App.tsx:264
    scanTimers,        \* pending setTimeout(..., 1500), App.tsx:267
    nextStream,        \* number of MediaStream objects granted so far
    verifyTimers,      \* pending setTimeout(..., 600), App.tsx:289
    commitTimers,      \* pending setTimeout(..., 300), App.tsx:291
    now,               \* Date.now()
    nextObject,        \* number of TransferDetail objects created so far
    commitLog          \* one record per finalizeTransfer call, oldest first

vars == <<screen, userName, loginName, loginError, draft, pendingTransfer,
          lastTransfer, history, balance, transferError, historyFilter,
          historySearch,
          biometricStatus, cameraStatus, cameraError, offlineScanResult,
          offlineRecordedAt, cameraStream, cameraSupported, liveStreams,
          streamRequests, playRequests, scanTimers, nextStream, verifyTimers,
          commitTimers, now, nextObject, commitLog>>

(***************************************************************************)
(* Bounds.                                                                 *)
(***************************************************************************)
\* timer callbacks that may run in one behaviour (each advances the clock)
MaxNow == 5
\* TransferDetail objects created in one behaviour
MaxDetails == 1
\* camera streams granted in one behaviour, and requests pending at a time
MaxStreams == 1

\* null, for a TransferDetail, a MediaStream (streams are numbered from 1) and
\* a recorded time
None == [null |-> TRUE]
NoStream == 0
\* the empty scan result (scan results are the numbers of their codes)
NoScanResult == 0
NoTime == 0 - 1

(***************************************************************************)
(* JavaScript strings and numbers.                                         *)
(***************************************************************************)
Digits == {"0", "1", "2", "3", "4", "5", "6", "7", "8", "9"}

DigitValue(c) ==
    CASE c = "0" -> 0 [] c = "1" -> 1 [] c = "2" -> 2 [] c = "3" -> 3
      [] c = "4" -> 4 [] c = "5" -> 5 [] c = "6" -> 6 [] c = "7" -> 7
      [] c = "8" -> 8 [] c = "9" -> 9

IsWhiteSpace(c) == c = " "

\* String.prototype.trim
RECURSIVE TrimStart(_)
TrimStart(s) ==
    IF s # <<>> /\ IsWhiteSpace(Head(s)) THEN TrimStart(Tail(s)) ELSE s

RECURSIVE TrimEnd(_)
TrimEnd(s) ==
    IF s # <<>> /\ IsWhiteSpace(s[Len(s)])
    THEN TrimEnd(SubSeq(s, 1, Len(s) - 1))
    ELSE s

Trim(s) == TrimEnd(TrimStart(s))

\* s.replace(/,/g, "")
StripCommas(s) == SelectSeq(s, LAMBDA c : c # ",")

NaN == [kind |-> "nan", v |-> 0]
PosInfinity == [kind |-> "inf", v |-> 0]
NegInfinity == [kind |-> "ninf", v |-> 0]
Finite(v) == [kind |-> "fin", v |-> v]

InfinityLiteral == <<"I", "n", "f", "i", "n", "i", "t", "y">>

RECURSIVE DigitsValue(_)
\* value of a sequence of decimal digits
DigitsValue(s) ==
    IF s = <<>> THEN 0
    ELSE 10 * DigitsValue(SubSeq(s, 1, Len(s) - 1)) + DigitValue(s[Len(s)])

\* StrUnsignedDecimalLiteral without exponent: digits, digits. , digits.digits
\* or .digits
IsDecimalLiteral(s) ==
    /\ \A i \in 1..Len(s) : s[i] \in Digits \cup {"."}
    /\ Cardinality({i \in 1..Len(s) : s[i] = "."}) <= 1
    /\ \E i \in 1..Len(s) : s[i] \in Digits

\* mills of an unsigned decimal literal (three fractional digits are kept)
DecimalMills(s) ==
    LET dots == {i \in 1..Len(s) : s[i] = "."}
        dot == IF dots = {} THEN Len(s) + 1 ELSE CHOOSE i \in dots : TRUE
        whole == SubSeq(s, 1, dot - 1)
        frac == SubSeq(s, dot + 1, Len(s))
        frac3 == SubSeq(frac \o <<"0", "0", "0">>, 1, 3)
    IN  1000 * DigitsValue(whole) + DigitsValue(frac3)

\* Number(string): the StringToNumber abstract operation
StringToNumber(s) ==
    LET t == Trim(s)
        signed == t # <<>> /\ Head(t) \in {"+", "-"}
        negative == signed /\ Head(t) = "-"
        body == IF signed THEN Tail(t) ELSE t
    IN  IF t = <<>> THEN Finite(0)
        ELSE IF body = InfinityLiteral
             THEN (IF negative THEN NegInfinity ELSE PosInfinity)
        ELSE IF IsDecimalLiteral(body)
             THEN Finite(IF negative THEN 0 - DecimalMills(body)
                                      ELSE DecimalMills(body))
        ELSE NaN

\* a test for zero that lets NaN through
IsZero(x) == x.kind = "fin" /\ x.v = 0

\* !x for a number x
IsFalsy(x) == x.kind = "nan" \/ (x.kind = "fin" /\ x.v = 0)

\* x <= 0
LessOrEqualZero(x) == x.kind = "ninf" \/ (x.kind = "fin" /\ x.v <= 0)

\* x >= b for a finite b
GreaterOrEqual(x, b) == x.kind = "inf" \/ (x.kind = "fin" /\ x.v >= b)

\* x > b for a finite b
GreaterThan(x, b) == x.kind = "inf" \/ (x.kind = "fin" /\ x.v > b)

\* Math.round(x * 100) / 100 for a finite x >= 0, in mills
RoundToCents(v) == ((v + 5) \div 10) * 10

Max(a, b) == IF a >= b THEN a ELSE b

(***************************************************************************)
(* Inputs the user can type.                                               *)
(***************************************************************************)
EmptyString == <<>>

LoginNames == {EmptyString, <<" ">>, <<"C", "h", "i", "n", "t", "h", "a",
    "n", "a">>}

\* " Asha ": a name typed with blanks around it
PaddedName == <<" ", "A", "s", "h", "a", " ">>

Asha == <<"A", "s", "h", "a", " ">>

Recipients == {EmptyString, <<" ">>, Asha}

Notes == {EmptyString, <<" ", "l", "u", "n", "c", "h">>}

\* "125,000": the whole initial balance, with a grouping separator
WholeBalance == <<"1", "2", "5", ",", "0", "0", "0">>

\* "0.001": a positive amount below half a cent
TinyAmount == <<"0", ".", "0", "0", "1">>

Amounts ==
    { EmptyString, <<"a", "b", "c">>, <<"0">>, <<"-", "5">>,
      <<"2", "0", "0", "0">>, WholeBalance,
      <<"1", "2", "5", "0", "0", "0", ".", "0", "0", "1">>, InfinityLiteral }

\* Math.floor(10000 + Math.random() * 90000): two of the 90000 outcomes
ReferenceNumbers == {10000, 10001}

Screens == {"login", "home", "transfer", "confirm", "success", "history",
            "offline", "offlineSuccess"}

seededHistory ==
    << [id |-> 18, recipient |-> <<"K", "e", "v", "i", "n", " ", "a", "t",
        " ", "w", "o", "r", "k">>,
        note |-> <<"R", "e", "i", "m", "b", "u", "r", "s", "e", "m", "e",
            "n", "t", " ", "f", "o", "r", " ", "t", "i", "c", "k", "e",
            "t", "s">>, amount |-> 4000000, direction |-> "sent",
        timestamp |-> 0 - 3],
       [id |-> 17, recipient |-> <<"A", "s", "h", "a", " ", "F", "e", "r",
           "n", "a", "n", "d", "o">>,
        note |-> <<"D", "i", "n", "n", "e", "r", " ", "s", "p", "l", "i",
            "t", " ", "f", "r", "o", "m", " ", "F", "r", "i", "d", "a",
            "y">>, amount |-> 6200000, direction |-> "sent",
        timestamp |-> 0 - 26],
       [id |-> 16, recipient |-> <<"S", "a", "l", "a", "r", "y">>,
        note |-> <<"N", "o", "v", "e", "m", "b", "e", "r", " ", "p", "a",
            "y", "r", "o", "l", "l">>, amount |-> 145000000,
        direction |-> "received", timestamp |-> 0 - 72] >>

\* a default draft whose amount field shows a zero
defaultDraftZeroAmount == [recipient |-> EmptyString, amount |-> <<"0">>,
                           note |-> EmptyString]

defaultDraft == [recipient |-> EmptyString, amount |-> EmptyString,
                 note |-> EmptyString]

InitialBalance == 125000000

Init ==
    /\ screen = "login"
    /\ userName = EmptyString
    /\ loginName = <<"C", "h", "i", "n", "t", "h", "a", "n", "a">>
    /\ loginError = ""
    /\ draft = defaultDraft
    /\ pendingTransfer = None
    /\ lastTransfer = None
    /\ history = seededHistory
    /\ balance = InitialBalance
    /\ transferError = ""
    /\ historyFilter = "all"
    /\ historySearch = EmptyString
    /\ biometricStatus = "idle"
    /\ cameraStatus = "idle"
    /\ cameraError = ""
    /\ offlineScanResult = NoScanResult
    /\ offlineRecordedAt = NoTime
    /\ cameraStream = NoStream
    /\ cameraSupported \in BOOLEAN
    /\ liveStreams = {}
    /\ streamRequests = <<>>
    /\ playRequests = <<>>
    /\ scanTimers = <<>>
    /\ nextStream = 0
    /\ verifyTimers = <<>>
    /\ commitTimers = <<>>
    /\ now = 0
    /\ nextObject = 0
    /\ commitLog = <<>>

\* a test that takes every string, the empty one too, for a name
BooleanAlways(name) == TRUE

\* Boolean(userName): a string is truthy unless it is empty
Boolean(name) == name # EmptyString

isLoggedIn == Boolean(userName)

\* the guard at the top of renderScreen, applied to the state a handler leaves
\* (isLoggedIn is then the Boolean of the name that handler set)
renderScreen(name, s) == IF ~Boolean(name) /\ s # "login" THEN "login" ELSE s

(***************************************************************************)
(* Rendering.  Every handler and callback below ends with the render that  *)
(* React performs for the state it set, and with the effects of that       *)
(* render.                                                                 *)
(***************************************************************************)
\* The two effects that depend on stopCameraStream (App.tsx:313-325), run for
\* a render that replaces the committed (s0, c0) by (s1, c1).  A cleanup is
\* the one registered by the previous render, so it sees the previous
\* cameraStream; the setCameraStream(null) it performs causes one more
\* render, whose cleanups see c1.
useEffect(s0, c0, s1, c1, st1, live1) ==
    LET changed == s1 # s0 \/ c1 # c0
        stop0 == changed /\ c0 # NoStream /\ (s0 = "offline" \/ c1 # c0)
        c2 == IF stop0 THEN NoStream ELSE c1
        st2 == IF changed /\ s0 = "offline" THEN "idle" ELSE st1
        live2 == IF stop0 THEN live1 \ {c0} ELSE live1
        again == c2 # c1
        st3 == IF again /\ s1 = "offline" THEN "idle" ELSE st2
        live3 == IF again THEN live2 \ {c1} ELSE live2
    IN  [status |-> st3, stream |-> c2, live |-> live3]

\* the render of the state (s1, c1, st1, live1) left by a handler whose
\* session name is `name`
Render(name, s1, c1, st1, live1) ==
    LET s == renderScreen(name, s1)
        e == useEffect(screen, cameraStream, s, c1, st1, live1)
    IN  /\ screen' = s
        /\ cameraStream' = e.stream
        /\ cameraStatus' = e.status
        /\ liveStreams' = e.live

\* setScreen(next) in a handler that sets no camera state
setScreen(next) ==
    Render(userName', next, cameraStream, cameraStatus, liveStreams)

renderVars == <<screen, cameraStream, cameraStatus, liveStreams>>

loginVars == <<userName, loginName, loginError>>

transferVars == <<draft, pendingTransfer, lastTransfer, history, balance,
                  transferError, biometricStatus, verifyTimers, commitTimers,
                  nextObject, commitLog>>

filterVars == <<historyFilter, historySearch>>

scanVars == <<cameraError, offlineScanResult, offlineRecordedAt,
              cameraSupported, streamRequests, playRequests, scanTimers,
              nextStream>>

(***************************************************************************)
(* Time.  One unit is 300 ms; a timer fires when the clock reaches its due *)
(* time, before the clock advances further.  The clock counts the time     *)
(* during which some timer is pending: time that passes while none is      *)
(* pending changes nothing but the values Date.now() returns later.        *)
(***************************************************************************)
VerifyDelay == 2
CommitDelay == 1
ScanDelay == 5

DueTimers ==
    {i \in 1..Len(verifyTimers) : verifyTimers[i].due <= now}
      \cup {i \in 1..Len(commitTimers) : commitTimers[i].due <= now}
      \cup {i \in 1..Len(scanTimers) : scanTimers[i].due <= now}

Tick ==
    /\ now < MaxNow
    /\ verifyTimers \o commitTimers \o scanTimers # <<>>
    /\ DueTimers = {}
    /\ now' = now + 1
    /\ UNCHANGED <<renderVars, loginVars, transferVars, scanVars,
                   filterVars>>

(***************************************************************************)
(* Login and navigation.                                                   *)
(***************************************************************************)
LoginErrorMessage == "Please enter your name"

SetLoginName(n) ==
    /\ screen = "login"
    /\ loginName' = n
    /\ UNCHANGED <<renderVars, userName, loginError, transferVars, scanVars,
                   filterVars, now>>

\* a login that keeps the name as typed
handleLoginUntrimmed ==
    /\ screen = "login"
    /\ IF Trim(loginName) = EmptyString
       THEN /\ loginError' = LoginErrorMessage
            /\ UNCHANGED <<renderVars, userName>>
       ELSE /\ userName' = loginName
            /\ loginError' = ""
            /\ setScreen("home")
    /\ UNCHANGED <<loginName, transferVars, scanVars, filterVars, now>>

handleLogin ==
    /\ screen = "login"
    /\ IF Trim(loginName) = EmptyString
       THEN /\ loginError' = LoginErrorMessage
            /\ UNCHANGED <<renderVars, userName>>
       ELSE /\ userName' = Trim(loginName)
            /\ loginError' = ""
            /\ setScreen("home")
    /\ UNCHANGED <<loginName, transferVars, scanVars, filterVars, now>>

showBack ==
    screen \in {"transfer", "confirm", "history", "success", "offline",
                "offlineSuccess"}

\* a back button that always leads home
BackTargetHome(s) == IF s = "login" THEN s ELSE "home"

BackTarget(s) ==
    CASE s = "transfer" -> "home"
      [] s = "confirm" -> "transfer"
      [] s = "history" -> "home"
      [] s = "success" -> "home"
      [] s = "offline" -> "transfer"
      [] s = "offlineSuccess" -> "transfer"
      [] OTHER -> s

handleBack ==
    /\ showBack
    /\ UNCHANGED <<loginVars, transferVars, scanVars, filterVars, now>>
    /\ setScreen(BackTarget(screen))

\* the targets the handler names; the bar itself offers the first three
NavTargets == {"home", "transfer", "history", "confirm", "success",
               "offline", "offlineSuccess"}

\* the rejected targets without "confirm"
WorkflowScreensWithoutConfirm == {"success", "offline", "offlineSuccess"}

\* the targets handleBottomNav rejects
WorkflowScreens == {"confirm", "success", "offline", "offlineSuccess"}

handleBottomNav(next) ==
    /\ UNCHANGED <<loginVars, transferVars, scanVars, filterVars, now>>
    /\ IF ~isLoggedIn \/ next \in WorkflowScreens
       THEN UNCHANGED renderVars
       ELSE setScreen(next)

\* buttons whose onClick is setScreen(target): <<screen shown, target>>
ScreenButtons ==
    { <<"home", "transfer">>, <<"home", "history">>,
      <<"transfer", "offline">>, <<"offline", "transfer">>,
      <<"offlineSuccess", "history">>, <<"offlineSuccess", "transfer">>,
      <<"offlineSuccess", "home">>, <<"success", "history">>,
      <<"success", "home">> }

ClickScreenButton(b) ==
    /\ screen = b[1]
    /\ UNCHANGED <<loginVars, transferVars, scanVars, filterVars, now>>
    /\ setScreen(b[2])

\* a Cancel that also empties the draft
CancelConfirmClearsDraft ==
    /\ screen = "confirm"
    /\ draft' = [recipient |-> EmptyString, amount |-> EmptyString,
                 note |-> EmptyString]
    /\ UNCHANGED <<loginVars, pendingTransfer, lastTransfer, history, balance,
                   transferError, biometricStatus, verifyTimers, commitTimers,
                   nextObject, commitLog, scanVars, filterVars, now>>
    /\ setScreen("transfer")

\* the Cancel button of the confirm screen, and "Go to Transfer"
CancelConfirm ==
    /\ screen = "confirm"
    /\ UNCHANGED <<loginVars, transferVars, scanVars, filterVars, now>>
    /\ setScreen("transfer")

\* "Send another transfer" on the success screen
SendAnother ==
    /\ screen = "success"
    /\ draft' = defaultDraft
    /\ UNCHANGED <<loginVars, pendingTransfer, lastTransfer, history, balance,
                   transferError, biometricStatus, verifyTimers, commitTimers,
                   nextObject, commitLog, scanVars, filterVars, now>>
    /\ setScreen("transfer")

SetHistoryFilter(f) ==
    /\ screen = "history"
    /\ historyFilter' = f
    /\ UNCHANGED <<renderVars, loginVars, transferVars, scanVars, now,
                   historySearch>>

UpperCase == <<"A", "B", "C", "D", "E", "F", "G", "H", "I", "J", "K", "L", "M",
               "N", "O", "P", "Q", "R", "S", "T", "U", "V", "W", "X", "Y", "Z">>

LowerCase == <<"a", "b", "c", "d", "e", "f", "g", "h", "i", "j", "k", "l", "m",
               "n", "o", "p", "q", "r", "s", "t", "u", "v", "w", "x", "y", "z">>

\* String.prototype.toLowerCase, for ASCII
ToLowerCase(s) ==
    [i \in 1..Len(s) |->
        IF \E k \in 1..26 : UpperCase[k] = s[i]
        THEN LowerCase[CHOOSE k \in 1..26 : UpperCase[k] = s[i]]
        ELSE s[i]]

\* String.prototype.includes
Includes(s, q) ==
    \E i \in 0..(Len(s) - Len(q)) : SubSeq(s, i + 1, i + Len(q)) = q

\* a filter test that knows no "all"
matchesFilterByDirectionOnly(entry, filter) == entry.direction = filter

matchesFilter(entry, filter) == filter = "all" \/ entry.direction = filter

matchesSearch(entry, query) ==
    \/ query = EmptyString
    \/ Includes(ToLowerCase(entry.recipient), query)
    \/ Includes(ToLowerCase(entry.note), query)

\* the useMemo of filteredHistory as a function of its three dependencies
FilterHistory(entries, filter, search) ==
    LET query == ToLowerCase(Trim(search))
    IN  SelectSeq(entries, LAMBDA entry : /\ matchesFilter(entry, filter)
                                         /\ matchesSearch(entry, query))

filteredHistory == FilterHistory(history, historyFilter, historySearch)

\* what the user types into the search field
Queries == {EmptyString, <<" ">>, <<"A", "S", "H", "A">>}

\* typing into the search field of the history screen
SetHistorySearch(q) ==
    /\ screen = "history"
    /\ historySearch' = q
    /\ UNCHANGED <<renderVars, loginVars, transferVars, scanVars, now,
                   historyFilter>>

(***************************************************************************)
(* Transfer workflow.                                                      *)
(***************************************************************************)
SetRecipient(r) ==
    /\ screen = "transfer"
    /\ draft' = [draft EXCEPT !.recipient = r]
    /\ UNCHANGED <<renderVars, loginVars, pendingTransfer, lastTransfer,
                   history, balance, transferError, biometricStatus,
                   verifyTimers, commitTimers, nextObject, commitLog,
                   scanVars, filterVars, now>>

\* typing into the amount field; the quick-amount buttons set "2000" too
SetAmount(a) ==
    /\ screen = "transfer"
    /\ draft' = [draft EXCEPT !.amount = a]
    /\ UNCHANGED <<renderVars, loginVars, pendingTransfer, lastTransfer,
                   history, balance, transferError, biometricStatus,
                   verifyTimers, commitTimers, nextObject, commitLog,
                   scanVars, filterVars, now>>

SetNote(n) ==
    /\ screen = "transfer"
    /\ draft' = [draft EXCEPT !.note = n]
    /\ UNCHANGED <<renderVars, loginVars, pendingTransfer, lastTransfer,
                   history, balance, transferError, biometricStatus,
                   verifyTimers, commitTimers, nextObject, commitLog,
                   scanVars, filterVars, now>>

RecipientError == "Add a recipient name"
AmountError == "Enter an amount above LKR 0"
BalanceError == "Insufficient balance"

\* the amount handleContinueToConfirm reads from the draft
amountValue(d) == StringToNumber(StripCommas(d.amount))

\* the checks with the amount examined before the recipient
ValidationErrorAmountFirst(d, b) ==
    IF IsFalsy(amountValue(d)) \/ LessOrEqualZero(amountValue(d))
    THEN AmountError
    ELSE IF Trim(d.recipient) = EmptyString THEN RecipientError
    ELSE IF GreaterThan(amountValue(d), b) THEN BalanceError
    ELSE ""

\* the checks without the comparison with the balance
ValidationErrorNoBalanceCheck(d, b) ==
    IF Trim(d.recipient) = EmptyString THEN RecipientError
    ELSE IF IsFalsy(amountValue(d)) \/ LessOrEqualZero(amountValue(d))
         THEN AmountError
    ELSE ""

\* the message of the first check of handleContinueToConfirm that fails for
\* draft d and balance b, "" when all three pass
ValidationError(d, b) ==
    IF Trim(d.recipient) = EmptyString THEN RecipientError
    ELSE IF IsFalsy(amountValue(d)) \/ LessOrEqualZero(amountValue(d))
         THEN AmountError
    ELSE IF GreaterThan(amountValue(d), b) THEN BalanceError
    ELSE ""

\* The handler is entered whenever the continue event reaches it: the
\* button's disabled attribute (App.tsx:727) repeats the handler's own checks
\* and is not a guard here.
handleContinueToConfirm ==
    /\ screen = "transfer"
    /\ UNCHANGED <<loginVars, draft, lastTransfer, history, balance,
                   biometricStatus, verifyTimers, commitTimers, commitLog,
                   scanVars, filterVars, now>>
    /\ IF ValidationError(draft, balance) # ""
       THEN /\ transferError' = ValidationError(draft, balance)
            /\ UNCHANGED <<renderVars, pendingTransfer, nextObject>>
       ELSE /\ nextObject < MaxDetails
            /\ transferError' = ""
            /\ \E ref \in ReferenceNumbers :
                 pendingTransfer' =
                     [recipient |-> Trim(draft.recipient),
                      amount |-> RoundToCents(amountValue(draft).v),
                      note |-> Trim(draft.note),
                      reference |-> ref,
                      timestamp |-> now,
                      object |-> nextObject + 1]
            /\ nextObject' = nextObject + 1
            /\ setScreen("confirm")

\* an approval that does not look for a pending transfer
handleFingerprintUnguarded ==
    /\ UNCHANGED <<loginVars, draft, pendingTransfer, lastTransfer, history,
                   balance, transferError, commitTimers, nextObject,
                   commitLog, scanVars, filterVars, now>>
    /\ biometricStatus' = "verifying"
    /\ verifyTimers' =
           Append(verifyTimers, [due |-> now + VerifyDelay,
                                 detail |-> pendingTransfer])
    /\ UNCHANGED renderVars

handleFingerprint ==
    /\ UNCHANGED <<loginVars, draft, pendingTransfer, lastTransfer, history,
                   balance, transferError, commitTimers, nextObject,
                   commitLog, scanVars, filterVars, now>>
    /\ IF pendingTransfer = None
       THEN /\ setScreen("transfer")
            /\ UNCHANGED <<biometricStatus, verifyTimers>>
       ELSE /\ biometricStatus' = "verifying"
            /\ verifyTimers' =
                   Append(verifyTimers, [due |-> now + VerifyDelay,
                                         detail |-> pendingTransfer])
            /\ UNCHANGED renderVars

\* The approve button: rendered on the confirm screen when a transfer is
\* pending (App.tsx:745) and disabled while the status is "verifying"
\* (App.tsx:806-808).
ApproveButton ==
    /\ screen = "confirm"
    /\ pendingTransfer # None
    /\ biometricStatus # "verifying"
    /\ handleFingerprint

\* An approve event that reaches handleFingerprint in a logged-in session
\* with no transfer pending.  No button delivers it: renderConfirm shows
\* "Go to Transfer" instead of the approve button in that case.
ApproveWithoutPending ==
    /\ isLoggedIn
    /\ pendingTransfer = None
    /\ handleFingerprint

\* a first timer that marks the status verified and schedules no commit
VerifyTimerFiresNoCommit ==
    /\ verifyTimers # <<>>
    /\ Head(verifyTimers).due <= now
    /\ biometricStatus' = "verified"
    /\ verifyTimers' = Tail(verifyTimers)
    /\ UNCHANGED <<renderVars, loginVars, draft, pendingTransfer,
                   lastTransfer, history, balance, transferError, nextObject,
                   commitLog, scanVars, filterVars, now, commitTimers>>

\* the callback of setTimeout(..., 600)
VerifyTimerFires ==
    /\ verifyTimers # <<>>
    /\ Head(verifyTimers).due <= now
    /\ biometricStatus' = "verified"
    /\ verifyTimers' = Tail(verifyTimers)
    /\ commitTimers' =
           Append(commitTimers, [due |-> now + CommitDelay,
                                 detail |-> Head(verifyTimers).detail])
    /\ UNCHANGED <<renderVars, loginVars, draft, pendingTransfer,
                   lastTransfer, history, balance, transferError, nextObject,
                   commitLog, scanVars, filterVars, now>>

\* a debit that leaves the clamp out
debitUnclamped(prev, amount) == prev - amount

\* a debit applied twice
debitTwice(prev, amount) == Max(0, prev - amount - amount)

\* a commit that adds the amount
debitAsCredit(prev, amount) == Max(0, prev + amount)

\* setBalance((prev) => Math.max(0, prev - completed.amount))
debit(prev, amount) == Max(0, prev - amount)

\* an entry put after the existing ones
appendEntry(entry, prev) == prev \o <<entry>>

\* an entry that replaces the existing ones
replaceEntries(entry, prev) == <<entry>>

\* setHistory((prev) => [entry, ...prev])
prependEntry(entry, prev) == <<entry>> \o prev

\* a completed detail that keeps the time of staging
completedStale(detail) ==
    [recipient |-> detail.recipient, amount |-> detail.amount,
     note |-> detail.note, reference |-> detail.reference,
     timestamp |-> detail.timestamp]

\* { ...detail, timestamp: Date.now() }
completedDetail(detail) ==
    [recipient |-> detail.recipient, amount |-> detail.amount,
     note |-> detail.note, reference |-> detail.reference,
     timestamp |-> now]

\* the state finalizeTransfer(detail) sets
finalizeTransfer(detail) ==
    LET completed == completedDetail(detail)
        entry == [id |-> completed.reference,
                  recipient |-> completed.recipient,
                  note |-> completed.note,
                  amount |-> completed.amount,
                  direction |-> "sent",
                  timestamp |-> completed.timestamp]
    IN  /\ history' = prependEntry(entry, history)
        /\ balance' = debit(balance, completed.amount)
        /\ lastTransfer' = completed
        /\ draft' = defaultDraft
        /\ pendingTransfer' = None
        /\ biometricStatus' = "idle"
        /\ commitLog' = Append(commitLog, [object |-> detail.object,
                                           amount |-> detail.amount,
                                           before |-> balance])
        /\ setScreen("success")

\* the callback of setTimeout(() => finalizeTransfer(pendingTransfer), 300)
CommitTimerFires ==
    /\ commitTimers # <<>>
    /\ Head(commitTimers).due <= now
    /\ commitTimers' = Tail(commitTimers)
    /\ UNCHANGED <<loginVars, transferError, verifyTimers, nextObject,
                   scanVars, filterVars, now>>
    /\ finalizeTransfer(Head(commitTimers).detail)

(***************************************************************************)
(* Offline QR workflow.                                                    *)
(***************************************************************************)
UnsupportedMessage == "Camera not supported in this browser."
DeniedMessage == "Camera permission denied or unavailable."

\* Math.floor(100000 + Math.random() * 900000): two of the outcomes
ScanCodes == {100000, 100001}

\* the <video> element exists while the offline screen shows "scanning"
videoMounted == screen = "offline" /\ cameraStatus = "scanning"

\* handleStartQrScan up to its first await.  The closure keeps the
\* stopCameraStream of the render it was created in, hence the cameraStream
\* of that render.
handleStartQrScan ==
    /\ screen = "offline"
    /\ UNCHANGED <<loginVars, transferVars, filterVars, now,
                   offlineRecordedAt, cameraSupported, playRequests,
                   scanTimers, nextStream>>
    /\ IF cameraStatus \in {"requesting", "scanning"}
       THEN UNCHANGED <<renderVars, cameraError, offlineScanResult,
                        streamRequests>>
       ELSE /\ offlineScanResult' = NoScanResult
            /\ IF ~cameraSupported
               THEN /\ cameraError' = UnsupportedMessage
                    /\ UNCHANGED streamRequests
                    /\ Render(userName, screen, cameraStream, "error",
                              liveStreams)
               ELSE /\ Len(streamRequests) < MaxStreams
                    /\ cameraError' = ""
                    /\ streamRequests' =
                           Append(streamRequests, [captured |-> cameraStream])
                    /\ Render(userName, screen, cameraStream, "requesting",
                              liveStreams)

RemoveAt(q, i) == SubSeq(q, 1, i - 1) \o SubSeq(q, i + 1, Len(q))

\* getUserMedia resolves: the continuation up to the timer, or up to the
\* await of video.play() when the <video> element exists
StreamGranted(i) ==
    /\ i \in 1..Len(streamRequests)
    /\ nextStream < MaxStreams
    /\ nextStream' = nextStream + 1
    /\ streamRequests' = RemoveAt(streamRequests, i)
    /\ UNCHANGED <<loginVars, transferVars, filterVars, now, cameraError,
                   offlineScanResult, offlineRecordedAt, cameraSupported>>
    /\ IF videoMounted
       THEN /\ playRequests' = Append(playRequests, streamRequests[i])
            /\ UNCHANGED scanTimers
            /\ Render(userName, screen, nextStream + 1, cameraStatus,
                      liveStreams \cup {nextStream + 1})
       ELSE /\ scanTimers' =
                   Append(scanTimers,
                          [due |-> now + ScanDelay,
                           captured |-> streamRequests[i].captured])
            /\ UNCHANGED playRequests
            /\ Render(userName, screen, nextStream + 1, "scanning",
                      liveStreams \cup {nextStream + 1})

\* video.play() settles (a rejection is swallowed): the rest of the
\* continuation
PlaySettled ==
    /\ playRequests # <<>>
    /\ playRequests' = Tail(playRequests)
    /\ scanTimers' =
           Append(scanTimers, [due |-> now + ScanDelay,
                               captured |-> Head(playRequests).captured])
    /\ UNCHANGED <<loginVars, transferVars, filterVars, now, cameraError,
                   offlineScanResult, offlineRecordedAt, cameraSupported,
                   streamRequests, nextStream>>
    /\ Render(userName, screen, cameraStream, "scanning", liveStreams)

\* getUserMedia rejects: the catch block
StreamDenied(i) ==
    /\ i \in 1..Len(streamRequests)
    /\ streamRequests' = RemoveAt(streamRequests, i)
    /\ cameraError' = DeniedMessage
    /\ UNCHANGED <<loginVars, transferVars, filterVars, now,
                   offlineScanResult, offlineRecordedAt, cameraSupported,
                   playRequests, scanTimers, nextStream>>
    /\ Render(userName, screen, cameraStream, "error", liveStreams)

\* the callback of setTimeout(..., 1500); its stopCameraStream is the one
\* the handler captured
ScanTimerFires ==
    /\ scanTimers # <<>>
    /\ Head(scanTimers).due <= now
    /\ scanTimers' = Tail(scanTimers)
    /\ \E code \in ScanCodes : offlineScanResult' = code
    /\ offlineRecordedAt' = now
    /\ UNCHANGED <<loginVars, transferVars, filterVars, now, cameraError,
                   cameraSupported, streamRequests, playRequests, nextStream>>
    /\ LET captured == Head(scanTimers).captured
       IN  Render(userName, "offlineSuccess",
                  IF captured # NoStream THEN NoStream ELSE cameraStream,
                  "idle",
                  IF captured # NoStream THEN liveStreams \ {captured}
                                     ELSE liveStreams)

(***************************************************************************)
(* Specification.                                                          *)
(***************************************************************************)
\* login, navigation and the clock
NextNavigation ==
    \/ Tick
    \/ \E n \in LoginNames : SetLoginName(n)
    \/ handleLogin
    \/ handleBack
    \/ \E next \in NavTargets : handleBottomNav(next)
    \/ \E b \in ScreenButtons : ClickScreenButton(b)
    \/ CancelConfirm
    \/ SendAnother

\* the transfer workflow from a validated or rejected draft to the commit
NextWorkflow ==
    \/ handleContinueToConfirm
    \/ ApproveButton
    \/ VerifyTimerFires
    \/ CommitTimerFires

\* The offline QR workflow.  video.play() is awaited only when a stream is
\* granted while the <video> element of an earlier grant is shown, which takes
\* two granted streams; PlaySettled is the step of specifications that grant
\* that many.
NextScan ==
    \/ handleStartQrScan
    \/ \E i \in 1..MaxStreams : StreamGranted(i)
    \/ \E i \in 1..MaxStreams : StreamDenied(i)
    \/ ScanTimerFires

\* Every event of the app, for a user who types one recipient and one amount.
Next ==
    \/ NextNavigation
    \/ \E f \in {"all", "sent", "received"} : SetHistoryFilter(f)
    \/ SetRecipient(Asha)
    \/ SetAmount(WholeBalance)
    \/ NextWorkflow
    \/ NextScan

Spec == Init /\ [][Next]_vars

\* The transfer workflow for a user who types any of the sample drafts and
\* never starts a QR scan.
NextTransfer ==
    \/ NextNavigation
    \/ \E r \in Recipients : SetRecipient(r)
    \/ \E a \in Amounts : SetAmount(a)
    \/ \E n \in Notes : SetNote(n)
    \/ NextWorkflow

SpecTransfer == Init /\ [][NextTransfer]_vars

\* Every event but the QR scan and the history filter, for a user who may
\* also log in under a name typed with blanks around it.
NextLogin ==
    \/ SetLoginName(PaddedName)
    \/ NextNavigation
    \/ SetRecipient(Asha)
    \/ SetAmount(WholeBalance)
    \/ NextWorkflow

SpecLogin == Init /\ [][NextLogin]_vars

\* The same events and those of the history screen: the filter buttons and
\* the search field.
NextHistory ==
    \/ NextLogin
    \/ \E f \in {"all", "sent", "received"} : SetHistoryFilter(f)
    \/ \E q \in Queries : SetHistorySearch(q)

SpecHistory == Init /\ [][NextHistory]_vars

\* The events of SpecLogin with the timers of the browser: a timer that is
\* due runs, and time passes while a timer is pending.
SpecTimers ==
    /\ Init
    /\ [][NextLogin]_vars
    /\ WF_vars(Tick)
    /\ WF_vars(VerifyTimerFires)
    /\ WF_vars(CommitTimerFires)

\* The events of SpecLogin for a user who may also type the tiny amount.
NextRounding ==
    \/ NextLogin
    \/ SetAmount(TinyAmount)

SpecRounding == Init /\ [][NextRounding]_vars

\* The events of SpecLogin and an approve event with nothing pending.
NextApprove ==
    \/ NextLogin
    \/ ApproveWithoutPending

SpecApprove == Init /\ [][NextApprove]_vars

(***************************************************************************)
(* Properties.                                                             *)
(***************************************************************************)
\* a step in which finalizeTransfer ran
CommitStep == Len(commitLog') = Len(commitLog) + 1

IsSuffix(s, t) ==
    /\ Len(s) <= Len(t)
    /\ SubSeq(t, Len(t) - Len(s) + 1, Len(t)) = s

nonBlankRecipient == Trim(draft.recipient) # EmptyString

\* C1: in every reachable state the wallet balance is at least 0.
BalanceNonNegative == balance >= 0

\* a second commit of the whole balance has been clamped at 0
BalanceClamped ==
    /\ Len(commitLog) = 2
    /\ commitLog[2].amount > commitLog[2].before
    /\ balance = 0

\* C2: no TransferDetail object is committed twice: the commit log never
\* holds two entries for one object.
DetailCommittedAtMostOnce ==
    \A i, j \in 1..Len(commitLog) :
        commitLog[i].object = commitLog[j].object => i = j

\* C3: whenever finalizeTransfer runs, the amount it commits is at most the
\* balance at that moment.
CommitWithinBalance ==
    \A i \in 1..Len(commitLog) : commitLog[i].amount <= commitLog[i].before

\* C4: the balance after a commit of amount a from balance b is max(0, b - a)
\* (the balance a commit leaves is the balance the next commit finds, or the
\* current one); committing 2000 from 125000 leaves 123000.
BalanceAfterCommit ==
    /\ \A i \in 1..Len(commitLog) :
          LET after == IF i = Len(commitLog) THEN balance
                       ELSE commitLog[i + 1].before
          IN  after = Max(0, commitLog[i].before - commitLog[i].amount)
    /\ (/\ Len(commitLog) = 1
        /\ commitLog[1].before = 125000000
        /\ commitLog[1].amount = 2000000) => balance = 123000000

\* the scenario of the spec: Asha, 2000, lunch, committed once
ScenarioCommitted ==
    /\ Len(commitLog) = 1
    /\ commitLog[1].amount = 2000000
    /\ balance = 123000000
    /\ history[1].recipient = <<"A", "s", "h", "a">>
    /\ history[1].note = <<"l", "u", "n", "c", "h">>

\* C5: every commit lengthens the history by one, and the new entry is the
\* first one, with direction "sent" and the committed detail's recipient,
\* note, amount and reference (as id).
CommitPrependsEntry ==
    [][CommitStep =>
        LET d == Head(commitTimers).detail
        IN  /\ Len(history') = Len(history) + 1
            /\ history'[1].direction = "sent"
            /\ history'[1].recipient = d.recipient
            /\ history'[1].note = d.note
            /\ history'[1].amount = d.amount
            /\ history'[1].id = d.reference]_vars

\* a committed entry with a note is in front of the seeded entries
EntryPrepended ==
    /\ Len(commitLog) = 1
    /\ Len(history) = Len(seededHistory) + 1
    /\ history[1].direction = "sent"
    /\ history[1].note # EmptyString
    /\ history[1].id \in ReferenceNumbers

\* C6: in every step the previous history is a suffix of the next one, and
\* only a commit changes the history.
HistoryAppendOnly ==
    [][/\ IsSuffix(history, history')
       /\ history' # history => CommitStep]_vars

\* a commit, a finished scan and a changed filter have all happened and the
\* seeded entries are still the tail of the history
HistoryKeptAcrossEvents ==
    /\ Len(commitLog) >= 1
    /\ offlineScanResult # NoScanResult
    /\ historyFilter # "all"
    /\ SubSeq(history, Len(history) - 2, Len(history)) = seededHistory

\* C7: with a blank recipient the continue event fails with the recipient
\* error whatever the amount is, and the screen stays "transfer".
BlankRecipientRejected ==
    [][(handleContinueToConfirm /\ ~nonBlankRecipient) =>
        /\ transferError' = RecipientError
        /\ screen' = "transfer"
        /\ UNCHANGED pendingTransfer]_vars

\* the recipient error stands although the amount alone would be accepted
RecipientErrorShown ==
    /\ transferError = RecipientError
    /\ ~nonBlankRecipient
    /\ ValidationError([draft EXCEPT !.recipient = Asha], balance) = ""
    /\ screen = "transfer"

\* C8: with a non-blank recipient and an amount that is non-numeric or at
\* most 0, the continue event fails with the amount error and stages no
\* pending transfer.
InvalidAmountRejected ==
    [][(/\ handleContinueToConfirm
        /\ nonBlankRecipient
        /\ \/ amountValue(draft).kind \in {"nan", "ninf"}
           \/ (amountValue(draft).kind = "fin" /\ amountValue(draft).v <= 0)) =>
        /\ transferError' = AmountError
        /\ screen' = "transfer"
        /\ UNCHANGED <<pendingTransfer, nextObject>>]_vars

\* the amount error stands for a non-numeric amount
AmountErrorShown ==
    /\ transferError = AmountError
    /\ nonBlankRecipient
    /\ amountValue(draft).kind = "nan"
    /\ pendingTransfer = None

\* C9: with a non-blank recipient and a finite amount a > 0 the continue
\* event fails with the balance error if a > balance, and otherwise stages
\* a pending transfer of a rounded to cents and moves to "confirm".
BalanceCheck ==
    [][(/\ handleContinueToConfirm
        /\ nonBlankRecipient
        /\ amountValue(draft).kind = "fin"
        /\ amountValue(draft).v > 0) =>
        IF amountValue(draft).v > balance
        THEN /\ transferError' = BalanceError
             /\ screen' = "transfer"
             /\ UNCHANGED <<pendingTransfer, nextObject>>
        ELSE /\ transferError' = ""
             /\ screen' = "confirm"
             /\ pendingTransfer' # None
             /\ pendingTransfer'.amount = RoundToCents(amountValue(draft).v)
             /\ pendingTransfer'.recipient = Trim(draft.recipient)]_vars

\* an amount equal to the balance has been accepted
WholeBalanceStaged ==
    /\ screen = "confirm"
    /\ pendingTransfer # None
    /\ pendingTransfer.amount = balance
    /\ transferError = ""

\* C10: an amount that parses to +Infinity is rejected with the amount
\* error.
InfiniteAmountInvalid ==
    [][(/\ handleContinueToConfirm
        /\ nonBlankRecipient
        /\ amountValue(draft).kind = "inf") =>
        transferError' = AmountError]_vars

\* the draft fails one of the three checks, stated without the handler
FailsValidation ==
    \/ ~nonBlankRecipient
    \/ amountValue(draft).kind \in {"nan", "ninf", "inf"}
    \/ amountValue(draft).v <= 0
    \/ amountValue(draft).v > balance

\* C11: a continue event whose draft fails validation sets the transfer
\* error and leaves the screen, balance, history, draft, pending transfer
\* and lastTransfer as they were.
FailedValidationChangesNothing ==
    [][(handleContinueToConfirm /\ FailsValidation) =>
        /\ transferError' \in {RecipientError, AmountError, BalanceError}
        /\ UNCHANGED <<screen, balance, history, draft, pendingTransfer,
                       lastTransfer>>]_vars

\* an amount above the balance has been rejected while an earlier, cancelled
\* pending transfer is still staged and the balance is untouched
RejectedWithPendingStaged ==
    /\ transferError = BalanceError
    /\ screen = "transfer"
    /\ pendingTransfer # None
    /\ balance = InitialBalance
    /\ amountValue(draft).v > balance

\* C12: a login with a blank name stays on "login", logged out, with a
\* login error; a login with a non-blank name moves to "home", sets the
\* user name to the trimmed name (" Asha " gives "Asha") and clears the
\* error.
LoginSubmit ==
    [][handleLogin =>
        IF \A i \in 1..Len(loginName) : loginName[i] = " "
        THEN /\ screen' = "login"
             /\ userName' = EmptyString
             /\ loginError' # ""
        ELSE /\ screen' = "home"
             /\ userName' = Trim(loginName)
             /\ loginName = PaddedName => userName' = <<"A", "s", "h", "a">>
             /\ loginError' = ""]_vars

\* a session opened under the trimmed name after a rejected blank login
\* would have left an error
TrimmedNameLoggedIn ==
    /\ loginName = PaddedName
    /\ userName = <<"A", "s", "h", "a">>
    /\ screen # "login"
    /\ loginError = ""

\* C13: a session that is not logged in is on the login screen.
LoggedOutOnLogin == userName = EmptyString => screen = "login"

\* a rejected login has left the logged-out session on "login"
LoggedOutAfterRejectedLogin ==
    /\ userName = EmptyString
    /\ loginError = LoginErrorMessage
    /\ screen = "login"

\* C14: a bottom-navigation event with target t moves a logged-in session
\* to t when t is home, transfer or history, and otherwise changes nothing.
BottomNavGuard ==
    [][\A t \in NavTargets :
         handleBottomNav(t) =>
           IF userName # EmptyString /\ t \in {"home", "transfer", "history"}
           THEN screen' = t
           ELSE UNCHANGED vars]_vars

\* a logged-in session is on "history" while the approval it started on
\* "confirm" is still verifying
NavigatedDuringApproval ==
    /\ userName # EmptyString
    /\ screen = "history"
    /\ biometricStatus = "verifying"
    /\ pendingTransfer # None

\* a step that leaves the confirm screen by Cancel or by the back button
\* while no approval has been started
CancelBeforeApproval ==
    /\ CancelConfirm \/ (screen = "confirm" /\ handleBack)
    /\ biometricStatus = "idle"
    /\ verifyTimers = <<>>
    /\ commitTimers = <<>>

\* C15: cancelling the confirmation before any approval moves to "transfer"
\* and leaves the draft as it was at the continue event: unchanged by the
\* cancellation, and still the draft the pending transfer was made from.
CancelKeepsDraft ==
    [][CancelBeforeApproval =>
        /\ screen' = "transfer"
        /\ draft' = draft
        /\ pendingTransfer # None
        /\ Trim(draft.recipient) = pendingTransfer.recipient
        /\ RoundToCents(amountValue(draft).v) = pendingTransfer.amount
        /\ Trim(draft.note) = pendingTransfer.note]_vars

\* back on "transfer" after a cancellation with the draft still filled in
DraftKeptAfterCancel ==
    /\ screen = "transfer"
    /\ pendingTransfer # None
    /\ commitLog = <<>>
    /\ biometricStatus = "idle"
    /\ draft.recipient = Asha
    /\ draft.amount # EmptyString

\* the draft with all three fields empty
IsEmptyDraft(d) ==
    d.recipient = EmptyString /\ d.amount = EmptyString /\ d.note = EmptyString

\* C16 as claimed: the draft is empty after a commit and after a
\* cancellation of the confirmation.
DraftResetOnCommitAndCancel ==
    [][/\ CommitStep => IsEmptyDraft(draft')
       /\ (CancelConfirm \/ (screen = "confirm" /\ handleBack))
             => IsEmptyDraft(draft')]_vars

\* C16 as amended: the draft is empty after a commit, and a cancellation of
\* the confirmation leaves it as it was.
DraftResetOnCommitOnly ==
    [][/\ CommitStep => IsEmptyDraft(draft')
       /\ (CancelConfirm \/ (screen = "confirm" /\ handleBack))
             => draft' = draft]_vars

\* a commit has emptied a draft that had been filled in
DraftEmptiedByCommit ==
    /\ Len(commitLog) = 1
    /\ IsEmptyDraft(draft)
    /\ lastTransfer # None
    /\ lastTransfer.recipient # EmptyString

\* C17: a pending transfer exists only while the screen is "confirm".
PendingOnlyOnConfirm == pendingTransfer # None => screen = "confirm"

\* C18: no stream is held (its tracks not stopped) once the screen is no
\* longer "offline".
StreamReleasedOffOffline == liveStreams # {} => screen = "offline"

\* C19: at most one camera acquisition is outstanding: the pending
\* getUserMedia requests, the pending video.play() waits and the pending
\* scan timers number at most one.
OneAcquisitionOutstanding ==
    Len(streamRequests) + Len(playRequests) + Len(scanTimers) <= 1

\* C20: a scan timer never records a result or moves to "offlineSuccess"
\* after the offline screen has been left: it fires only on "offline".
AbandonedScanNeverCompletes ==
    [][ScanTimerFires => screen = "offline"]_vars

\* a step in which startScan fails: the runtime has no getUserMedia, or the
\* stream request is rejected
ScanFails ==
    \/ /\ handleStartQrScan
       /\ ~cameraSupported
       /\ cameraStatus \notin {"requesting", "scanning"}
    \/ \E i \in 1..MaxStreams : StreamDenied(i)

\* C21: when startScan fails the camera status becomes "error", a camera
\* error message is set, no stream is held, no scan result is recorded and
\* the screen does not change.
ScanFailureHoldsNothing ==
    [][ScanFails =>
        /\ cameraStatus' = "error"
        /\ cameraError' \in {UnsupportedMessage, DeniedMessage}
        /\ liveStreams' = {}
        /\ offlineScanResult' = NoScanResult
        /\ screen' = screen]_vars

RECURSIVE IsSubsequence(_, _)
\* s can be obtained from t by deleting entries
IsSubsequence(s, t) ==
    IF s = <<>> THEN TRUE
    ELSE IF t = <<>> THEN FALSE
    ELSE IF Head(s) = Head(t) THEN IsSubsequence(Tail(s), Tail(t))
    ELSE IsSubsequence(s, Tail(t))

EntriesOf(direction) == {i \in 1..Len(history) : history[i].direction = direction}

\* C22: with an empty query the "all" view is the history itself, in order;
\* the "sent" and "received" views are subsequences of the history that
\* hold exactly its sent and its received entries, so they are disjoint and
\* together make up the history; the view shown is the "all" view whenever
\* the filter is back on "all" and the query is blank.
HistoryViews ==
    LET sent == FilterHistory(history, "sent", EmptyString)
        received == FilterHistory(history, "received", EmptyString)
    IN  /\ FilterHistory(history, "all", EmptyString) = history
        /\ IsSubsequence(sent, history)
        /\ IsSubsequence(received, history)
        /\ \A i \in 1..Len(sent) : sent[i].direction = "sent"
        /\ \A i \in 1..Len(received) : received[i].direction = "received"
        /\ Len(sent) = Cardinality(EntriesOf("sent"))
        /\ Len(received) = Cardinality(EntriesOf("received"))
        /\ Len(sent) + Len(received) = Len(history)
        /\ (historyFilter = "all" /\ Trim(historySearch) = EmptyString)
              => filteredHistory = history

\* the "sent" view of a history with a committed entry, under a blank query
SentViewShown ==
    /\ historyFilter = "sent"
    /\ historySearch = <<" ">>
    /\ Len(history) = Len(seededHistory) + 1
    /\ Len(filteredHistory) = 3
    /\ filteredHistory[1] = history[1]

\* an approval has been accepted whose two timers run within the clock's
\* range
ApprovalAccepted ==
    \E i \in 1..Len(verifyTimers) :
        verifyTimers[i].due + CommitDelay <= MaxNow

\* C23: an accepted approval sets the status "verifying", the first timer
\* sets it "verified", and when the timers run every accepted approval is
\* followed by a state with screen "success" and status "idle".
ApprovalCommits ==
    /\ [][ApproveButton => biometricStatus' = "verifying"]_vars
    /\ [][VerifyTimerFires => biometricStatus' = "verified"]_vars
    /\ ApprovalAccepted ~> (screen = "success" /\ biometricStatus = "idle")

\* the commit of an approval given at time 0 has just run
ApprovalCommitted ==
    /\ now = VerifyDelay + CommitDelay
    /\ Len(commitLog) = 1
    /\ screen = "success"
    /\ biometricStatus = "idle"
    /\ verifyTimers = <<>>

\* C24: an approve event with no pending transfer moves to "transfer",
\* starts no timer and leaves the biometric status, the balance and the
\* history unchanged.
ApproveWithoutPendingRedirects ==
    [][ApproveWithoutPending =>
        /\ screen' = "transfer"
        /\ UNCHANGED <<verifyTimers, commitTimers, biometricStatus, balance,
                       history, pendingTransfer>>]_vars

\* on "transfer" with nothing pending and nothing started, after a commit
\* left the session on "success"
RedirectedWithNothingPending ==
    /\ screen = "transfer"
    /\ pendingTransfer = None
    /\ Len(commitLog) = 1
    /\ biometricStatus = "idle"
    /\ verifyTimers = <<>>
    /\ commitTimers = <<>>

\* the screen the back event is to lead to
BackMap ==
    [s \in Screens |->
        IF s \in {"transfer", "history", "success"} THEN "home"
        ELSE IF s \in {"confirm", "offline", "offlineSuccess"} THEN "transfer"
        ELSE s]

\* C25 as claimed: the back event maps the screen by BackMap and changes
\* nothing but the screen.
BackChangesOnlyScreen ==
    [][handleBack =>
        /\ screen' = BackMap[screen]
        /\ UNCHANGED <<loginVars, transferVars, scanVars, filterVars, now,
                       cameraStream, cameraStatus, liveStreams>>]_vars

\* C25 as amended: the back event maps the screen by BackMap, is a no-op on
\* login and home, and changes nothing else, except that back from
\* "offline" sets the camera status "idle" and releases the held stream.
BackMapsScreens ==
    [][handleBack =>
        /\ screen' = BackMap[screen]
        /\ BackTarget("login") = "login"
        /\ BackTarget("home") = "home"
        /\ UNCHANGED <<loginVars, transferVars, scanVars, filterVars, now>>
        /\ IF screen = "offline"
           THEN /\ cameraStatus' = "idle"
                /\ cameraStream' = NoStream
                /\ liveStreams' = liveStreams \ {cameraStream}
           ELSE UNCHANGED <<cameraStream, cameraStatus, liveStreams>>]_vars

\* a stream granted on "offline" has been released on the way to
\* "transfer", before its scan timer fired
StreamReleasedOnLeaving ==
    /\ screen = "transfer"
    /\ nextStream = 1
    /\ liveStreams = {}
    /\ cameraStream = NoStream
    /\ cameraStatus = "idle"
    /\ scanTimers # <<>>

\* C26: right after a commit lastTransfer is the committed detail with the
\* commit time as timestamp, the draft is empty, no transfer is pending,
\* the biometric status is "idle" and the screen is "success".
StateAfterCommit ==
    [][CommitStep =>
        LET d == Head(commitTimers).detail
        IN  /\ lastTransfer' # None
            /\ lastTransfer'.recipient = d.recipient
            /\ lastTransfer'.amount = d.amount
            /\ lastTransfer'.note = d.note
            /\ lastTransfer'.reference = d.reference
            /\ lastTransfer'.timestamp = now
            /\ IsEmptyDraft(draft')
            /\ pendingTransfer' = None
            /\ biometricStatus' = "idle"
            /\ screen' = "success"]_vars

\* a commit has stamped lastTransfer with a time later than the staging
LastTransferRestamped ==
    /\ Len(commitLog) = 1
    /\ lastTransfer # None
    /\ lastTransfer.timestamp = now
    /\ now > 0
    /\ screen = "success"
    /\ pendingTransfer = None

\* C27: a commit only ever happens while the screen is "confirm".
CommitOnlyOnConfirm == [][CommitStep => screen = "confirm"]_vars

\* a step in which the stream request succeeds while "offline" is shown
GrantedOnOffline ==
    /\ screen = "offline"
    /\ \E i \in 1..MaxStreams : StreamGranted(i)

\* C28: when the stream request succeeds on "offline" the camera status
\* becomes "scanning"; when the scan timer then fires on "offline" the
\* stream has been released, the status is "idle", a scan code and its time
\* are recorded and the screen is "offlineSuccess".
ScanCompletes ==
    /\ [][GrantedOnOffline => cameraStatus' = "scanning"]_vars
    /\ [][(ScanTimerFires /\ screen = "offline") =>
            /\ liveStreams' = {}
            /\ cameraStream' = NoStream
            /\ cameraStatus' = "idle"
            /\ offlineScanResult' \in ScanCodes
            /\ offlineRecordedAt' = now
            /\ screen' = "offlineSuccess"]_vars

\* C29: the ids of the history entries are pairwise distinct.
HistoryIdsDistinct ==
    \A i, j \in 1..Len(history) : history[i].id = history[j].id => i = j

\* C30: every staged TransferDetail has an amount above 0.
StagedAmountPositive == pendingTransfer # None => pendingTransfer.amount > 0

\* C31: the balance never increases, and every step that changes it is a
\* commit.
BalanceChangedOnlyByCommit ==
    [][/\ balance' <= balance
       /\ balance' # balance => CommitStep]_vars

\* the balance has been debited by the one commit, after a scan and a
\* change of the history filter left it alone
BalanceDebitedOnce ==
    /\ Len(commitLog) = 1
    /\ balance = InitialBalance - commitLog[1].amount
    /\ balance < InitialBalance
    /\ offlineScanResult # NoScanResult
    /\ historyFilter = "received"

\* C32: the detail a commit commits is the pending transfer staged at that
\* moment.
CommitsStagedDetail ==
    [][CommitStep => Head(commitTimers).detail = pendingTransfer]_vars

\* C33: at most one approval chain is in flight: the pending biometric
\* timers number at most one.
OneApprovalInFlight == Len(verifyTimers) + Len(commitTimers) <= 1

RECURSIVE SumAmounts(_)
SumAmounts(entries) ==
    IF entries = <<>> THEN 0
    ELSE Head(entries).amount + SumAmounts(Tail(entries))

\* C34: the initial balance minus the balance is the sum of the amounts of
\* the entries added to the history since startup.
LedgerConserved ==
    InitialBalance - balance =
        SumAmounts(SubSeq(history, 1, Len(history) - Len(seededHistory)))

\* C35: while a stream is held with its scan timer pending the camera
\* status is "scanning", and while the status is "idle" no stream is held.
StatusReflectsStream ==
    /\ (liveStreams # {} /\ scanTimers # <<>>) => cameraStatus = "scanning"
    /\ cameraStatus = "idle" => liveStreams = {}

====
